---- MODULE Spec2Model ----
(***************************************************************************)
(* maze-solver-rs (src/src/main.rs): the validator, the four searches      *)
(* (dfs, bfs, greedy_best_first_search, a_star) and the pipeline of main.  *)
(*                                                                         *)
(* A behaviour is a session over one maze file: main is invoked on the     *)
(* same file once per argument vector of ArgList, in that order, and the   *)
(* outcome of every invocation is kept in `done`, so that statements that  *)
(* relate two runs on copies of the same grid are state predicates.        *)
(* Coordinates are 0-based as in the code; TLA+ sequences are 1-based, so  *)
(* maze[row][col] of the code is maze[row + 1][col + 1] here.              *)
(***************************************************************************)
EXTENDS Integers, Sequences, FiniteSets, TLC

VARIABLES
    file,      \* the maze file: whether main can open it, and its lines
    run,       \* the index in ArgList of the current invocation of main
    pc,        \* where the current invocation is
    grid,      \* main's grid, the maze the search mutates in place
    end,       \* the End coordinate maze_solver hands to the search
    frontier,  \* the frontier of bfs / greedy_best_first_search / a_star
    visited,   \* the visited set (vis of dfs)
    stack,     \* the frames of dfs, outermost first
    ret,       \* what the search returned (FALSE until one returns)
    marked,    \* the cells written '*', in path order
    err,       \* the Error main returned ("none": none so far)
    done,      \* the outcomes of the finished invocations
    pushed,    \* the coordinates placed on the frontier so far, in order
    expanded,  \* the coordinates expanded so far, in order
    accessed   \* the coordinates at which the search indexed the grid

\* what the search has done so far in the current invocation
hist == <<pushed, expanded, accessed>>

vars ==
    <<file, run, pc, grid, end, frontier, visited, stack, ret, marked, err, done,
      pushed, expanded, accessed>>

---------------------------------------------------------------------------
(* Bounds of the model.                                                    *)

\* maze files: at most MaxRows x MaxCols cells, at most MaxWalls walls
MaxRows == 2
MaxCols == 3
MaxWalls == 1
\* corridor files: at most LaneRows x LaneCols cells, at most LaneWalls walls
LaneRows == 1
LaneCols == 4
LaneWalls == 1
\* wide maze files: at most WideRows x WideCols cells, at most WideWalls walls
WideRows == 2
WideCols == 5
WideWalls == 1
\* files of the runs to completion: corridors of one row, at most LiveCols
\* cells and LiveWalls walls, and wall-free mazes of at most LiveSide x LiveSide
LiveCols == 4
LiveWalls == 1
LiveSide == 2
\* raw files: at most RawRows lines, at most RawSize characters in all
RawRows == 2
RawSize == 3
\* width of usize in the model (the code's is the platform's, 64)
UsizeBits == 8

---------------------------------------------------------------------------
(* Constants of the program.                                               *)

START == "A"
END == "B"
WALL == "█"
OPEN == " "
VISITED == "@"
PATH == "*"
VALID_CHARS == {"A", "B", "█", " "}

USIZE_MAX == (2 ^ UsizeBits) - 1

DIRECTIONS == << <<USIZE_MAX, 0>>, <<0, USIZE_MAX>>, <<1, 0>>, <<0, 1>> >>

\* mutant of overflowing_add: the sum stops at the maximum instead of wrapping
saturating_add(a, b) == IF a + b > USIZE_MAX THEN USIZE_MAX ELSE a + b

\* usize::overflowing_add(a, b).0
overflowing_add(a, b) == (a + b) % (USIZE_MAX + 1)

\* Option::None of get_start / get_end
None == <<>>

\* the argument vectors of the session: <<algorithm token, display_visited>>
ArgList ==
    << <<"BFS", FALSE>>, <<"BFS", TRUE>>,
       <<"DFS", FALSE>>, <<"DFS", TRUE>>,
       <<"GBFS", FALSE>>, <<"GBFS", TRUE>>,
       <<"A*", FALSE>>, <<"A*", TRUE>>,
       <<"IDA*", FALSE>> >>

token == ArgList[run][1]
display_visited == ArgList[run][2]

---------------------------------------------------------------------------
(* Files.                                                                  *)

\* characters a raw file is drawn from: the recognised ones, '#', and one
\* unrecognised character
RawChars == {"A", "B", "█", "#", " ", "x"}

RowsOver(S, n) == UNION {[1..k -> S] : k \in 0..n}

\* the texts of at most `rows` lines and at most `size` characters in all
RECURSIVE Texts(_, _)
Texts(rows, size) ==
    IF rows = 0 THEN {<<>>}
    ELSE {<<>>} \cup UNION {{<<l>> \o t : t \in Texts(rows - 1, size - Len(l))} :
                              l \in RowsOver(RawChars, size)}

RECURSIVE SubsetsUpTo(_, _)
SubsetsUpTo(S, k) ==
    IF k = 0 \/ S = {} THEN {{}}
    ELSE LET x == CHOOSE y \in S : TRUE
         IN  SubsetsUpTo(S \ {x}, k) \cup {w \cup {x} : w \in SubsetsUpTo(S \ {x}, k - 1)}

Cells(r, c) == (0..(r - 1)) \X (0..(c - 1))

MazeText(r, c, a, b, walls) ==
    [i \in 1..r |-> [j \in 1..c |->
        IF <<i - 1, j - 1>> = a THEN "A"
        ELSE IF <<i - 1, j - 1>> = b THEN "B"
        ELSE IF <<i - 1, j - 1>> \in walls THEN "#"
        ELSE " "]]

\* well-formed mazes of at most rows x cols cells: one 'A', one 'B', at
\* most `walls` walls (written '#'), the rest open
Mazes(rows, cols, walls) ==
    UNION {UNION {UNION {
        {MazeText(r, c, ab[1], ab[2], w) :
            w \in SubsetsUpTo(Cells(r, c) \ {ab[1], ab[2]}, walls)} :
        ab \in {p \in Cells(r, c) \X Cells(r, c) : p[1] # p[2]}} :
        c \in 1..cols} : r \in 1..rows}

\* a file main can open, with its lines, or one it cannot
Readable(lines) == [readable |-> TRUE, lines |-> lines]

NoFile == [readable |-> FALSE, lines |-> <<>>]

FilesOf(texts) == {Readable(l) : l \in texts}

---------------------------------------------------------------------------
(* Pure functions of the program.                                          *)

Height(maze) == Len(maze)
Width(maze, row) == Len(maze[row + 1])
At(maze, row, col) == maze[row + 1][col + 1]
Put(maze, row, col, ch) == [maze EXCEPT ![row + 1][col + 1] = ch]

Coords(maze) ==
    UNION {{<<i - 1, j - 1>> : j \in 1..Len(maze[i])} : i \in 1..Len(maze)}

Holding(maze, ch) == {p \in Coords(maze) : At(maze, p[1], p[2]) = ch}

\* the first cell, rows top to bottom and columns left to right, that holds ch
Locate(maze, ch) ==
    LET hits == Holding(maze, ch)
    IN  IF hits = {} THEN None
        ELSE CHOOSE p \in hits :
                \A q \in hits : p[1] < q[1] \/ (p[1] = q[1] /\ p[2] <= q[2])

get_start(maze) == Locate(maze, START)

get_end(maze) == Locate(maze, END)

AllRowsAsFirst(maze) == \A i \in 1..Len(maze) : Len(maze[i]) = Len(maze[1])

AllCharsValid(maze) == \A p \in Coords(maze) : At(maze, p[1], p[2]) \in VALID_CHARS

\* mutant of is_maze_valid: the characters are checked before the markers
is_maze_valid_chars_first(maze) ==
    IF Len(maze) = 0 THEN "EmptyMaze"
    ELSE IF ~AllRowsAsFirst(maze) THEN "MangledRows"
    ELSE IF ~AllCharsValid(maze) THEN "InvalidCharacter"
    ELSE IF get_start(maze) = None THEN "StartNotFound"
    ELSE IF get_end(maze) = None THEN "EndNotFound"
    ELSE "Ok"

is_maze_valid(maze) ==
    IF Len(maze) = 0 THEN "EmptyMaze"
    ELSE IF ~AllRowsAsFirst(maze) THEN "MangledRows"
    ELSE IF get_start(maze) = None THEN "StartNotFound"
    ELSE IF get_end(maze) = None THEN "EndNotFound"
    ELSE IF ~AllCharsValid(maze) THEN "InvalidCharacter"
    ELSE "Ok"

Abs(a, b) == IF a > b THEN a - b ELSE b - a

manhattan_dist(p1, p2) == Abs(p1[1], p2[1]) + Abs(p1[2], p2[2])

\* contents.lines().map(chars).map('#' -> '█').collect()
ReadGrid(contents) ==
    [i \in 1..Len(contents) |-> [j \in 1..Len(contents[i]) |->
        IF contents[i][j] = "#" THEN WALL ELSE contents[i][j]]]

\* match args[1]: the Algorithm of a token, "_" for the `_` arm
AlgorithmOf(tok) ==
    CASE tok = "A*" -> "AStar"
      [] tok = "BFS" -> "BFS"
      [] tok = "DFS" -> "DFS"
      [] tok = "GBFS" -> "GreedyBestFirst"
      [] OTHER -> "_"

\* DIRECTIONS mapped through overflowing_add, in order
Neighbors(row, col) ==
    [i \in 1..4 |-> <<overflowing_add(row, DIRECTIONS[i][1]),
                      overflowing_add(col, DIRECTIONS[i][2])>>]

InBounds(maze, p) == p[1] < Height(maze) /\ p[2] < Width(maze, p[1])

\* the coordinates of `cands` at which the code goes on to index the grid:
\* `&&` and `||` stop at a failed bounds test, maze[row][col] comes after it
Indexed(maze, cands) == {p \in cands : InBounds(maze, p)}

\* mutant of Passable: the filter forgets the walls
PassableThroughWalls(maze, p) == InBounds(maze, p)

\* the filter of the three frontier searches
Passable(maze, p) == InBounds(maze, p) /\ At(maze, p[1], p[2]) # WALL

\* the for_each of the three frontier searches: the candidates, in order,
\* that are not yet in `vis` (each is inserted as it is met)
RECURSIVE Unvisited(_, _)
Unvisited(cands, vis) ==
    IF cands = <<>> THEN <<>>
    ELSE IF Head(cands) \in vis THEN Unvisited(Tail(cands), vis)
    ELSE <<Head(cands)>> \o Unvisited(Tail(cands), vis \cup {Head(cands)})

Range(s) == {s[i] : i \in 1..Len(s)}

\* mutant of Skip1: the path is marked from its first cell, Start
SkipNone(path) == path

\* path.into_iter().skip(1)
Skip1(path) == IF path = <<>> THEN <<>> ELSE Tail(path)

RECURSIVE MarkPath(_, _)
MarkPath(maze, cells) ==
    IF cells = <<>> THEN maze
    ELSE MarkPath(Put(maze, cells[1][1], cells[1][2], PATH), Tail(cells))

\* Ord of (usize, usize) and of Vec<(usize, usize)>
PairLess(p, q) == p[1] < q[1] \/ (p[1] = q[1] /\ p[2] < q[2])

RECURSIVE VecLess(_, _)
VecLess(p, q) ==
    IF p = <<>> THEN q # <<>>
    ELSE IF q = <<>> THEN FALSE
    ELSE IF p[1] = q[1] THEN VecLess(Tail(p), Tail(q))
    ELSE PairLess(p[1], q[1])

\* Ord of (Reverse<usize>, usize, usize, Vec<(usize, usize)>)
EntryLess(a, b) ==
    \/ a.key > b.key
    \/ a.key = b.key /\ a.row < b.row
    \/ a.key = b.key /\ a.row = b.row /\ a.col < b.col
    \/ a.key = b.key /\ a.row = b.row /\ a.col = b.col /\ VecLess(a.path, b.path)

\* mutant of PopIndex: the heap is not reversed, the greatest key comes first
FarthestIndex(fr) ==
    CHOOSE i \in 1..Len(fr) : \A j \in 1..Len(fr) : fr[i].key >= fr[j].key

\* BinaryHeap::pop: the index of a greatest entry
PopIndex(fr) ==
    CHOOSE i \in 1..Len(fr) : \A j \in 1..Len(fr) : ~EntryLess(fr[i], fr[j])

\* mutant of FrontIndex: pop_back, the newest entry
BackIndex(fr) == Len(fr)

\* VecDeque::pop_front: the index of the oldest entry
FrontIndex(fr) == 1

Without(fr, i) == SubSeq(fr, 1, i - 1) \o SubSeq(fr, i + 1, Len(fr))

\* the neighbours the for_each of a frontier search schedules, in order
Successors(maze, vis, row, col) ==
    LET keep(p) == Passable(maze, p)
    IN  Unvisited(SelectSeq(Neighbors(row, col), keep), vis)

\* mutant of MarkVisited: the flag is ignored
MarkVisitedNever(maze, dv, row, col) == maze

\* mutant of MarkVisited: Start is not spared
MarkVisitedAnyCell(maze, dv, row, col) ==
    IF dv THEN Put(maze, row, col, VISITED) ELSE maze

\* the optional '@' of a frontier search
MarkVisited(maze, dv, row, col) ==
    IF dv /\ At(maze, row, col) # START THEN Put(maze, row, col, VISITED) ELSE maze

\* frontier entries: bfs carries (row, col, path), the heaps add the key
BfsEntry(p, path) == [row |-> p[1], col |-> p[2], path |-> path]

HeapEntry(k, p, path) == [key |-> k, row |-> p[1], col |-> p[2], path |-> path]

gbfs_key(p, e, path) == manhattan_dist(p, e)

\* mutant of a_star_key: the step into the candidate is not counted
a_star_key_to_parent(p, e, path) == manhattan_dist(p, e) + Len(path) - 1

a_star_key(p, e, path) == manhattan_dist(p, e) + Len(path)

\* the guard of dfs: the call returns false at once
dfs_guard(maze, vis, p) ==
    \/ p[1] >= Height(maze)
    \/ p[2] >= Width(maze, p[1])
    \/ At(maze, p[1], p[2]) = VISITED
    \/ At(maze, p[1], p[2]) = WALL
    \/ p \in vis

Frame(p) == [row |-> p[1], col |-> p[2], dir |-> 1, res |-> FALSE]

---------------------------------------------------------------------------
(* The session and the pipeline of main.                                   *)

Fresh ==
    /\ run = 1
    /\ pc = "start"
    /\ grid = <<>>
    /\ end = None
    /\ frontier = <<>>
    /\ visited = {}
    /\ stack = <<>>
    /\ ret = FALSE
    /\ marked = <<>>
    /\ err = "none"
    /\ done = <<>>
    /\ pushed = <<>>
    /\ expanded = <<>>
    /\ accessed = {}

\* sessions over a well-formed maze or corridor
Init ==
    /\ file \in FilesOf(Mazes(MaxRows, MaxCols, MaxWalls)
                         \cup Mazes(LaneRows, LaneCols, LaneWalls))
    /\ Fresh

\* sessions over a corridor or a wall-free maze, for the runs to completion
LiveInit ==
    /\ file \in FilesOf(Mazes(1, LiveCols, LiveWalls) \cup Mazes(LiveSide, LiveSide, 0))
    /\ Fresh

\* sessions over a well-formed maze of the wide family
WideInit == file \in FilesOf(Mazes(WideRows, WideCols, WideWalls)) /\ Fresh

\* sessions over any file: empty, ragged, markers missing or repeated,
\* unrecognised characters, unreadable
RawInit == file \in FilesOf(Texts(RawRows, RawSize)) \cup {NoFile} /\ Fresh

\* main: File::open, read_to_string and the construction of grid
MainRead ==
    /\ pc = "start"
    /\ IF ~file.readable
       THEN /\ err' = "FileNotFound"
            /\ pc' = "exit"
            /\ grid' = grid
       ELSE /\ grid' = ReadGrid(file.lines)
            /\ pc' = "validate"
            /\ err' = err
    /\ UNCHANGED <<file, run, end, frontier, visited, stack, ret, marked, done, hist>>

\* main: is_maze_valid(&grid)?
MainValidate ==
    /\ pc = "validate"
    /\ LET v == is_maze_valid(grid)
       IN  IF v # "Ok"
           THEN err' = v /\ pc' = "exit"
           ELSE err' = err /\ pc' = "match"
    /\ UNCHANGED <<file, run, grid, end, frontier, visited, stack, ret, marked, done, hist>>

\* mutant of MainMatch: the `_` arm falls back to DFS
MainMatchDefaults ==
    /\ pc = "match"
    /\ err' = err
    /\ pc' = "maze_solver"
    /\ UNCHANGED <<file, run, grid, end, frontier, visited, stack, ret, marked, done, hist>>

\* main: match args[1].as_str()
MainMatch ==
    /\ pc = "match"
    /\ IF AlgorithmOf(token) = "_"
       THEN err' = "InvalidAlgorithm" /\ pc' = "exit"
       ELSE err' = err /\ pc' = "maze_solver"
    /\ UNCHANGED <<file, run, grid, end, frontier, visited, stack, ret, marked, done, hist>>

\* main: println! of the grid, Ok(())
MainPrint ==
    /\ pc = "print"
    /\ pc' = "exit"
    /\ UNCHANGED <<file, run, grid, end, frontier, visited, stack, ret, marked, err, done, hist>>

main == MainRead \/ MainValidate \/ MainMatch \/ MainPrint

\* what an invocation leaves behind
Outcome ==
    [token |-> token, display_visited |-> display_visited, err |-> err,
     ret |-> ret, grid |-> grid, marked |-> marked, expanded |-> expanded]

\* the process has exited: the next invocation of the session starts
Invoke ==
    /\ pc = "exit"
    /\ done' = Append(done, Outcome)
    /\ run' = run + 1
    /\ pc' = IF run < Len(ArgList) THEN "start" ELSE "idle"
    /\ grid' = <<>>
    /\ end' = None
    /\ frontier' = <<>>
    /\ visited' = {}
    /\ stack' = <<>>
    /\ ret' = FALSE
    /\ marked' = <<>>
    /\ err' = "none"
    /\ pushed' = <<>>
    /\ expanded' = <<>>
    /\ accessed' = {}
    /\ UNCHANGED file

---------------------------------------------------------------------------
(* maze_solver and the entry of the search it dispatches to.               *)

\* dfs called on p with an empty stack: lines 83-100 of the outermost call
DfsOutermost(p) ==
    /\ accessed' = accessed \cup Indexed(grid, {p})
    /\ IF dfs_guard(grid, {}, p)
       THEN /\ ret' = FALSE /\ pc' = "print"
            /\ UNCHANGED <<grid, visited, stack, expanded>>
       ELSE IF At(grid, p[1], p[2]) = END
       THEN /\ ret' = TRUE /\ pc' = "print"
            /\ UNCHANGED <<grid, visited, stack, expanded>>
       ELSE /\ visited' = {p}
            /\ grid' = IF At(grid, p[1], p[2]) # START
                       THEN Put(grid, p[1], p[2], VISITED) ELSE grid
            /\ stack' = <<Frame(p)>>
            /\ expanded' = Append(expanded, p)
            /\ pc' = "dfs"
            /\ ret' = ret

maze_solver ==
    /\ pc = "maze_solver"
    /\ LET start == get_start(grid)
           e == get_end(grid)
           algorithm == AlgorithmOf(token)
       IN  /\ end' = e
           /\ CASE algorithm = "DFS" ->
                    /\ DfsOutermost(start)
                    /\ UNCHANGED <<frontier, pushed>>
                [] algorithm = "BFS" ->
                    /\ frontier' = <<BfsEntry(start, <<>>)>>
                    /\ pushed' = <<start>>
                    /\ visited' = {}
                    /\ pc' = "bfs"
                    /\ UNCHANGED <<grid, stack, ret, expanded, accessed>>
                [] algorithm = "GreedyBestFirst" ->
                    /\ frontier' = <<HeapEntry(manhattan_dist(start, e), start, <<>>)>>
                    /\ pushed' = <<start>>
                    /\ visited' = {}
                    /\ pc' = "greedy_best_first_search"
                    /\ UNCHANGED <<grid, stack, ret, expanded, accessed>>
                [] algorithm = "AStar" ->
                    /\ frontier' = <<HeapEntry(manhattan_dist(start, e), start, <<>>)>>
                    /\ pushed' = <<start>>
                    /\ visited' = {}
                    /\ pc' = "a_star"
                    /\ UNCHANGED <<grid, stack, ret, expanded, accessed>>
    /\ UNCHANGED <<file, run, marked, err, done>>

---------------------------------------------------------------------------
(* dfs.                                                                    *)

Top == stack[Len(stack)]

SetTop(st, f) == [st EXCEPT ![Len(st)] = f]

\* the closure of `any` calls dfs on the next direction: the callee returns
\* false at its guard, returns true on END, or marks itself and recurses
DfsCall ==
    /\ pc = "dfs"
    /\ ~Top.res
    /\ Top.dir <= 4
    /\ LET p == Neighbors(Top.row, Top.col)[Top.dir]
       IN  /\ accessed' = accessed \cup Indexed(grid, {p})
           /\ IF dfs_guard(grid, visited, p)
              THEN /\ stack' = SetTop(stack, [Top EXCEPT !.dir = @ + 1])
                   /\ UNCHANGED <<grid, visited, expanded>>
              ELSE IF At(grid, p[1], p[2]) = END
              THEN /\ stack' = SetTop(stack, [Top EXCEPT !.res = TRUE])
                   /\ UNCHANGED <<grid, visited, expanded>>
              ELSE /\ visited' = visited \cup {p}
                   /\ grid' = IF At(grid, p[1], p[2]) # START
                              THEN Put(grid, p[1], p[2], VISITED) ELSE grid
                   /\ stack' = Append(stack, Frame(p))
                   /\ expanded' = Append(expanded, p)
    /\ UNCHANGED <<file, run, pc, end, frontier, ret, marked, err, done, pushed>>

\* mutant of DfsUnmark: the frame leaves its sentinel in place
DfsKeepsSentinel(maze, dv, row, col) == maze

\* the grid a frame of dfs leaves when `any` gave res: lines 111-117
DfsUnmark(maze, dv, row, col) ==
    IF ~dv /\ At(maze, row, col) # START THEN Put(maze, row, col, OPEN) ELSE maze

\* mutant of DfsMarksPath: the frame marks its cell whatever `any` gave
DfsMarksPathAlways(maze, res, row, col) == At(maze, row, col) # START

DfsMarksPath(maze, res, row, col) == res /\ At(maze, row, col) # START

\* `any` is over (a call returned true, or all four returned false): the
\* frame reverts or marks its cell and returns res to its caller
DfsReturn ==
    /\ pc = "dfs"
    /\ Top.res \/ Top.dir > 4
    /\ LET res == Top.res
           g1 == DfsUnmark(grid, display_visited, Top.row, Top.col)
           path == DfsMarksPath(g1, res, Top.row, Top.col)
           rest == SubSeq(stack, 1, Len(stack) - 1)
       IN  /\ grid' = IF path THEN Put(g1, Top.row, Top.col, PATH) ELSE g1
           /\ marked' = IF path THEN <<<<Top.row, Top.col>>>> \o marked ELSE marked
           /\ IF rest = <<>>
              THEN /\ stack' = rest
                   /\ ret' = res
                   /\ pc' = "print"
              ELSE /\ stack' = SetTop(rest,
                        IF res THEN [rest[Len(rest)] EXCEPT !.res = TRUE]
                        ELSE [rest[Len(rest)] EXCEPT !.dir = @ + 1])
                   /\ ret' = ret
                   /\ pc' = pc
    /\ accessed' = accessed \cup {<<Top.row, Top.col>>}
    /\ UNCHANGED <<file, run, end, frontier, visited, err, done, pushed, expanded>>

dfs == DfsCall \/ DfsReturn

---------------------------------------------------------------------------
(* bfs.                                                                    *)

\* one turn of `while let Some(..) = frontier.pop_front()`
BfsPop ==
    /\ pc = "bfs"
    /\ frontier # <<>>
    /\ LET i == FrontIndex(frontier)
           e == frontier[i]
           rest == Without(frontier, i)
       IN  IF At(grid, e.row, e.col) = END
           THEN /\ grid' = MarkPath(grid, Skip1(e.path))
                /\ marked' = Skip1(e.path)
                /\ ret' = TRUE
                /\ pc' = "print"
                /\ frontier' = rest
                /\ visited' = visited
                /\ accessed' = accessed \cup {<<e.row, e.col>>} \cup Range(Skip1(e.path))
                /\ UNCHANGED <<pushed, expanded>>
           ELSE LET g == MarkVisited(grid, display_visited, e.row, e.col)
                    path == Append(e.path, <<e.row, e.col>>)
                    new == Successors(g, visited, e.row, e.col)
                IN  /\ grid' = g
                    /\ visited' = visited \cup Range(new)
                    /\ frontier' = rest \o [k \in 1..Len(new) |-> BfsEntry(new[k], path)]
                    /\ pushed' = pushed \o new
                    /\ expanded' = Append(expanded, <<e.row, e.col>>)
                    /\ accessed' = accessed \cup {<<e.row, e.col>>}
                            \cup Indexed(g, Range(Neighbors(e.row, e.col)))
                    /\ UNCHANGED <<marked, ret, pc>>
    /\ UNCHANGED <<file, run, end, stack, err, done>>

\* mutant of BfsExhausted: the loop spins on an empty frontier
BfsSpins ==
    /\ pc = "bfs"
    /\ frontier = <<>>
    /\ UNCHANGED vars

\* the frontier is empty: the loop ends and bfs returns false
BfsExhausted ==
    /\ pc = "bfs"
    /\ frontier = <<>>
    /\ ret' = FALSE
    /\ pc' = "print"
    /\ UNCHANGED <<file, run, grid, end, frontier, visited, stack, marked, err, done, hist>>

bfs == BfsPop \/ BfsExhausted

---------------------------------------------------------------------------
(* greedy_best_first_search.                                               *)

GbfsPop ==
    /\ pc = "greedy_best_first_search"
    /\ frontier # <<>>
    /\ LET i == PopIndex(frontier)
           e == frontier[i]
           rest == Without(frontier, i)
       IN  IF At(grid, e.row, e.col) = END
           THEN /\ grid' = MarkPath(grid, Skip1(e.path))
                /\ marked' = Skip1(e.path)
                /\ ret' = TRUE
                /\ pc' = "print"
                /\ frontier' = rest
                /\ visited' = visited
                /\ accessed' = accessed \cup {<<e.row, e.col>>} \cup Range(Skip1(e.path))
                /\ UNCHANGED <<pushed, expanded>>
           ELSE LET g == MarkVisited(grid, display_visited, e.row, e.col)
                    path == Append(e.path, <<e.row, e.col>>)
                    new == Successors(g, visited, e.row, e.col)
                IN  /\ grid' = g
                    /\ visited' = visited \cup Range(new)
                    /\ frontier' = rest \o [k \in 1..Len(new) |->
                            HeapEntry(gbfs_key(new[k], end, path), new[k], path)]
                    /\ pushed' = pushed \o new
                    /\ expanded' = Append(expanded, <<e.row, e.col>>)
                    /\ accessed' = accessed \cup {<<e.row, e.col>>}
                            \cup Indexed(g, Range(Neighbors(e.row, e.col)))
                    /\ UNCHANGED <<marked, ret, pc>>
    /\ UNCHANGED <<file, run, end, stack, err, done>>

GbfsExhausted ==
    /\ pc = "greedy_best_first_search"
    /\ frontier = <<>>
    /\ ret' = FALSE
    /\ pc' = "print"
    /\ UNCHANGED <<file, run, grid, end, frontier, visited, stack, marked, err, done, hist>>

greedy_best_first_search == GbfsPop \/ GbfsExhausted

---------------------------------------------------------------------------
(* a_star.                                                                 *)

AStarPop ==
    /\ pc = "a_star"
    /\ frontier # <<>>
    /\ LET i == PopIndex(frontier)
           e == frontier[i]
           rest == Without(frontier, i)
       IN  IF At(grid, e.row, e.col) = END
           THEN /\ grid' = MarkPath(grid, Skip1(e.path))
                /\ marked' = Skip1(e.path)
                /\ ret' = TRUE
                /\ pc' = "print"
                /\ frontier' = rest
                /\ visited' = visited
                /\ accessed' = accessed \cup {<<e.row, e.col>>} \cup Range(Skip1(e.path))
                /\ UNCHANGED <<pushed, expanded>>
           ELSE LET g == MarkVisited(grid, display_visited, e.row, e.col)
                    path == Append(e.path, <<e.row, e.col>>)
                    new == Successors(g, visited, e.row, e.col)
                IN  /\ grid' = g
                    /\ visited' = visited \cup Range(new)
                    /\ frontier' = rest \o [k \in 1..Len(new) |->
                            HeapEntry(a_star_key(new[k], end, path), new[k], path)]
                    /\ pushed' = pushed \o new
                    /\ expanded' = Append(expanded, <<e.row, e.col>>)
                    /\ accessed' = accessed \cup {<<e.row, e.col>>}
                            \cup Indexed(g, Range(Neighbors(e.row, e.col)))
                    /\ UNCHANGED <<marked, ret, pc>>
    /\ UNCHANGED <<file, run, end, stack, err, done>>

AStarExhausted ==
    /\ pc = "a_star"
    /\ frontier = <<>>
    /\ ret' = FALSE
    /\ pc' = "print"
    /\ UNCHANGED <<file, run, grid, end, frontier, visited, stack, marked, err, done, hist>>

a_star == AStarPop \/ AStarExhausted

---------------------------------------------------------------------------

Next ==
    \/ main
    \/ Invoke
    \/ maze_solver
    \/ dfs
    \/ bfs
    \/ greedy_best_first_search
    \/ a_star

Spec == Init /\ [][Next]_vars

WideSpec == WideInit /\ [][Next]_vars

RawSpec == RawInit /\ [][Next]_vars

\* the program is sequential and nothing suspends it: a step that can be
\* taken is taken
LiveSpec == LiveInit /\ [][Next]_vars /\ WF_vars(Next)

---------------------------------------------------------------------------
(* The grid graph the claims speak of, stated without the code.            *)

\* the grid the current invocation searches, as main built it
Input == ReadGrid(file.lines)

Adjacent(p, q) == Abs(p[1], q[1]) + Abs(p[2], q[2]) = 1

\* the cells of a rectangle of the grid that hold no wall
Free(maze) == {p \in Coords(maze) : At(maze, p[1], p[2]) # WALL}

\* the cells within `d` more steps of the cells of S, for every d
RECURSIVE Closure(_, _)
Closure(maze, S) ==
    LET T == S \cup {q \in Free(maze) : \E p \in S : Adjacent(p, q)}
    IN  IF T = S THEN S ELSE Closure(maze, T)

\* End is reachable from Start through 4-adjacent in-bounds non-Wall cells
Reachable(maze) == get_end(maze) \in Closure(maze, {get_start(maze)})

\* the number of steps of a shortest such path (counted from S, d steps in)
RECURSIVE StepsFrom(_, _, _)
StepsFrom(maze, S, d) ==
    IF get_end(maze) \in S THEN d
    ELSE StepsFrom(maze, S \cup {q \in Free(maze) : \E p \in S : Adjacent(p, q)}, d + 1)

ShortestSteps(maze) == StepsFrom(maze, {get_start(maze)}, 0)

Stars(maze) == Holding(maze, PATH)

OneStartOneEnd(maze) ==
    /\ Cardinality(Holding(maze, START)) = 1
    /\ Cardinality(Holding(maze, END)) = 1

\* a grid with exactly one Start, exactly one End and only recognised symbols
WellFormed(maze) ==
    /\ Len(maze) > 0
    /\ AllRowsAsFirst(maze)
    /\ AllCharsValid(maze)
    /\ OneStartOneEnd(maze)

\* the search of the current invocation has just returned
Returned == pc = "print"

\* the finished invocation of the same algorithm without display_visited
\* (ArgList pairs them: the unflagged run comes right before the flagged one)
Unflagged == done[run - 1]

\* the finished unflagged invocation of bfs
BfsRun == done[1]

IsChain(from, cells, to) ==
    /\ Cardinality(Range(cells)) = Len(cells)
    /\ \A i \in 1..(Len(cells) - 1) : Adjacent(cells[i], cells[i + 1])
    /\ IF cells = <<>> THEN Adjacent(from, to)
       ELSE Adjacent(from, cells[1]) /\ Adjacent(cells[Len(cells)], to)

---------------------------------------------------------------------------
(* Claims.                                                                 *)

\* C1: on a grid with exactly one Start, exactly one End and only recognised
\* symbols, whichever the algorithm and display_visited, the search returns
\* true exactly when End is reachable from Start through 4-adjacent in-bounds
\* non-Wall cells; so every search of the session returned the same.
C1_ReturnsReachability ==
    (Returned /\ WellFormed(Input)) =>
        /\ ret = Reachable(Input)
        /\ \A k \in 1..Len(done) : done[k].ret = ret

\* C1 witness: the last search of a session (a_star, display_visited) returns
\* false on a maze with a wall, after seven searches that returned false.
C1_Witness ==
    /\ Returned /\ run = 8 /\ ret = FALSE
    /\ Holding(Input, WALL) # {}

\* C2 (as claimed): whenever a_star returns true, it has marked as many '*'
\* cells as bfs marked on its copy of the same grid.
C2_AStarAsShortAsBfs ==
    (Returned /\ token = "A*" /\ ~display_visited /\ ret = TRUE /\ WellFormed(Input)) =>
        Cardinality(Stars(grid)) = Cardinality(Stars(BfsRun.grid))

\* C3: when End is reachable, the path bfs marks has the least number of steps
\* of any 4-connected wall-free path from Start to End (its '*' cells are the
\* steps but the last), and dfs and greedy_best_first_search never mark fewer
\* cells than bfs did on the same grid.
C3_BfsShortest ==
    (Returned /\ ret = TRUE /\ WellFormed(Input)) =>
        /\ token = "BFS" => Cardinality(Stars(grid)) + 1 = ShortestSteps(Input)
        /\ token \in {"DFS", "GBFS"} =>
              /\ BfsRun.ret = TRUE
              /\ Cardinality(Stars(BfsRun.grid)) + 1 = ShortestSteps(Input)
              /\ Cardinality(Stars(grid)) >= Cardinality(Stars(BfsRun.grid))

\* C3 witness: dfs has marked a path strictly longer than the one bfs marked,
\* and bfs's has at least two steps.
C3_Witness ==
    /\ Returned /\ token = "DFS" /\ ret = TRUE
    /\ Cardinality(Stars(BfsRun.grid)) >= 1
    /\ Cardinality(Stars(grid)) > Cardinality(Stars(BfsRun.grid))

\* C4 (as claimed): on every grid is_maze_valid accepts, every cell that held
\* 'A' or 'B' in the input holds the same marker when the search returns.
C4_MarkersKept ==
    Returned =>
        \A p \in Coords(Input) :
            At(Input, p[1], p[2]) \in {START, END} =>
                At(grid, p[1], p[2]) = At(Input, p[1], p[2])

\* C5: when a search returns true on a grid with one Start and one End, the
\* cells it marked '*' are, in the order of the path, a sequence without
\* repetition whose first cell is 4-adjacent to Start, whose last is 4-adjacent
\* to End (Start itself is, when nothing is marked), whose consecutive cells
\* are 4-adjacent, and none of which was a Wall, Start or End in the input.
C5_MarkedIsPath ==
    (Returned /\ ret = TRUE /\ WellFormed(Input)) =>
        /\ Stars(grid) = Range(marked)
        /\ IsChain(get_start(Input), marked, get_end(Input))
        /\ \A i \in 1..Len(marked) :
              At(Input, marked[i][1], marked[i][2]) \notin {WALL, START, END}

\* C5 witness: a search returned true having marked at least three cells.
C5_Witness == Returned /\ ret = TRUE /\ Len(marked) >= 3 /\ Stars(grid) # {}

\* C6 (as claimed): on every grid is_maze_valid accepts, exactly one cell is
\* 'A' and exactly one cell is 'B'.
C6_OneStartOneEnd == (pc = "match") => OneStartOneEnd(grid)

\* the five failures in the order the spec gives them, and when each applies
FailureOrder ==
    <<"EmptyMaze", "MangledRows", "StartNotFound", "EndNotFound", "InvalidCharacter">>

Applies(maze, failure) ==
    CASE failure = "EmptyMaze" -> Len(maze) = 0
      [] failure = "MangledRows" -> \E i \in 1..Len(maze) : Len(maze[i]) # Len(maze[1])
      [] failure = "StartNotFound" -> \A p \in Coords(maze) : At(maze, p[1], p[2]) # "A"
      [] failure = "EndNotFound" -> \A p \in Coords(maze) : At(maze, p[1], p[2]) # "B"
      [] failure = "InvalidCharacter" ->
            \E p \in Coords(maze) : At(maze, p[1], p[2]) \notin {"A", "B", "█", " "}

FirstFailure(maze) ==
    LET ks == {k \in 1..Len(FailureOrder) : Applies(maze, FailureOrder[k])}
    IN  IF ks = {} THEN "Ok"
        ELSE FailureOrder[CHOOSE k \in ks : \A j \in ks : k <= j]

\* main is past is_maze_valid in the current invocation
Validated == file.readable /\ pc \notin {"start", "validate", "idle"}

\* C7: is_maze_valid returns the first failure that applies in the order
\* EmptyGrid, MangledRows, StartNotFound, EndNotFound, InvalidCharacter, and
\* Ok exactly when none applies: once main is past it, the invocation has
\* ended in that failure, or none applies and no such failure is reported.
C7_FirstFailureReported ==
    Validated =>
        IF FirstFailure(Input) = "Ok"
        THEN err \in {"none", "InvalidAlgorithm"}
        ELSE pc = "exit" /\ err = FirstFailure(Input)

\* C7 witness: a grid with no 'B' and an unrecognised character ends in
\* EndNotFound, the earlier of the two failures.
C7_Witness ==
    /\ pc = "exit" /\ err = "EndNotFound"
    /\ Applies(Input, "InvalidCharacter")

\* C8: with display_visited the search returns what it returned without, and
\* marks the same '*' cells; the two final grids differ only at cells that are
\* '@' with the flag and ' ' without.
C8_FlagOnlyAddsVisited ==
    (Returned /\ display_visited /\ is_maze_valid(Input) = "Ok") =>
        /\ Unflagged.token = token /\ ~Unflagged.display_visited
        /\ ret = Unflagged.ret
        /\ Stars(grid) = Stars(Unflagged.grid)
        /\ \A p \in Coords(Input) :
              At(grid, p[1], p[2]) # At(Unflagged.grid, p[1], p[2]) =>
                  /\ At(grid, p[1], p[2]) = VISITED
                  /\ At(Unflagged.grid, p[1], p[2]) = OPEN

\* C8 witness: the flagged run left an '@' where the unflagged run left ' ',
\* beside a marked path.
C8_Witness ==
    /\ Returned /\ display_visited /\ ret = TRUE /\ Stars(grid) # {}
    /\ \E p \in Coords(Input) :
          At(grid, p[1], p[2]) = VISITED /\ At(Unflagged.grid, p[1], p[2]) = OPEN

\* C9: when a search returns false, the grid holds no '*' cell.
C9_NoPathMarkedOnFailure ==
    (Returned /\ ret = FALSE /\ is_maze_valid(Input) = "Ok") => Stars(grid) = {}

\* C9 witness: dfs with display_visited returned false after expanding cells
\* other than Start (they are left '@').
C9_Witness ==
    /\ Returned /\ ret = FALSE /\ token = "DFS"
    /\ Holding(grid, VISITED) # {}

\* a search step has happened, or is about to, in the current invocation
Searching ==
    \/ pc \in {"maze_solver", "dfs", "bfs", "greedy_best_first_search", "a_star", "print"}
    \/ ret
    \/ frontier # <<>> \/ stack # <<>> \/ visited # {} \/ marked # <<>>
    \/ pushed # <<>> \/ expanded # <<>> \/ accessed # {}

\* the current invocation cannot search: the grid is invalid or the token is
\* not an algorithm
Refused ==
    \/ is_maze_valid(Input) # "Ok"
    \/ token \notin {"A*", "BFS", "DFS", "GBFS"}

\* C10: in an invocation where is_maze_valid returned an error or the token
\* is none of "A*", "BFS", "DFS", "GBFS", no search step happens and the grid
\* is never written; the invocation ends in the corresponding error.
C10_NoSearchWhenRefused ==
    (file.readable /\ pc \notin {"start", "idle"} /\ Refused) =>
        /\ ~Searching
        /\ grid = Input
        /\ pc = "exit" =>
              err = IF is_maze_valid(Input) # "Ok"
                    THEN is_maze_valid(Input) ELSE "InvalidAlgorithm"

\* C10 witness: after eight searches on a valid grid with open cells, the
\* invocation with the token "IDA*" has ended in InvalidAlgorithm.
C10_Witness ==
    /\ pc = "exit" /\ err = "InvalidAlgorithm"
    /\ Len(done) = 8 /\ done[1].ret = TRUE
    /\ Holding(Input, OPEN) # {}

---------------------------------------------------------------------------
(* Claims about the course of a search.                                    *)

\* a search is under way, or has just returned, in the current invocation
InSearch == pc \in {"dfs", "bfs", "greedy_best_first_search", "a_star", "print"}

NoRepeats(s) == Cardinality(Range(s)) = Len(s)

\* C11 (as claimed): in a run of bfs, greedy_best_first_search or a_star no
\* coordinate is placed on the frontier more than once, the seeding of Start
\* counted, and in a run of dfs no cell is expanded more than once.
C11_ScheduledAtMostOnce ==
    InSearch =>
        /\ NoRepeats(pushed)
        /\ token = "DFS" => NoRepeats(expanded)

\* the cells of the frames of dfs that have not returned yet
InProgress == {<<stack[i].row, stack[i].col>> : i \in 1..Len(stack)}

\* C12: without display_visited, the grid a search returns holds no '@' and
\* differs from the input only at cells marked '*'; while dfs walks, the only
\* '@' cells are those of frames that have not returned yet, so every frame,
\* dead end or on the way back from End, reverts its sentinel.
C12_UnflaggedLeavesOnlyPath ==
    /\ (Returned /\ ~display_visited /\ is_maze_valid(Input) = "Ok") =>
           /\ Coords(grid) = Coords(Input)
           /\ Holding(grid, VISITED) = {}
           /\ \A p \in Coords(Input) :
                 At(grid, p[1], p[2]) # At(Input, p[1], p[2]) => At(grid, p[1], p[2]) = PATH
    /\ (pc = "dfs" /\ ~display_visited) => Holding(grid, VISITED) \subseteq InProgress

\* C12 witness: dfs without display_visited returned true having marked a
\* path and having abandoned a dead end (an expanded cell it left open).
C12_Witness ==
    /\ Returned /\ token = "DFS" /\ ~display_visited /\ ret = TRUE
    /\ marked # <<>>
    /\ \E p \in Range(expanded) :
          At(Input, p[1], p[2]) = OPEN /\ At(grid, p[1], p[2]) = OPEN

\* C13: with display_visited, when the search returns every expanded cell
\* other than Start is '*' if it is on the marked path and '@' if it is not,
\* and no cell that was never expanded is '@'.
C13_ExpandedAreVisited ==
    (Returned /\ display_visited /\ is_maze_valid(Input) = "Ok") =>
        /\ \A p \in Range(expanded) :
              At(Input, p[1], p[2]) # START =>
                  At(grid, p[1], p[2]) = IF p \in Range(marked) THEN PATH ELSE VISITED
        /\ Holding(grid, VISITED) \subseteq Range(expanded)

\* C13 witness: a search with display_visited returned true with an expanded
\* cell on the marked path and an expanded cell off it.
C13_Witness ==
    /\ Returned /\ display_visited /\ ret = TRUE
    /\ \E p, q \in Range(expanded) :
          /\ p \in Range(marked) /\ At(grid, p[1], p[2]) = PATH
          /\ q \notin Range(marked) /\ At(grid, q[1], q[2]) = VISITED

\* C14: every search that maze_solver starts eventually returns; it returns
\* true having processed the End cell, or false with the frontier exhausted
\* and every recursive call returned; and it never expands more cells than
\* the grid has, Start once more.
C14_SearchReturns ==
    /\ (pc = "maze_solver") ~> Returned
    /\ [](Returned =>
            /\ ret => get_end(Input) \in accessed
            /\ ~ret => frontier = <<>> /\ stack = <<>>)
    /\ [](Len(expanded) <= Cardinality(Coords(Input)) + 1)

\* C14 witness: a search has returned false after expanding several cells,
\* with nothing left on the frontier.
C14_Witness ==
    /\ Returned /\ ret = FALSE /\ frontier = <<>> /\ stack = <<>>
    /\ Len(expanded) >= 2

\* the cells an entry's path goes through, the entry's own cell last
Walk(e) == Append(e.path, <<e.row, e.col>>)

\* C15: in a_star every entry on the frontier carries the key h + g, h the
\* Manhattan distance from its cell to End and g the number of steps of its
\* path from Start to its cell (none for the seeded Start); an entry stays as
\* it was enqueued for as long as it is on the frontier.
C15_AStarKey ==
    /\ [](pc = "a_star" =>
            \A i \in 1..Len(frontier) :
                LET walk == Walk(frontier[i])
                IN  /\ walk[1] = get_start(Input)
                    /\ \A k \in 1..(Len(walk) - 1) : Adjacent(walk[k], walk[k + 1])
                    /\ frontier[i].key =
                          manhattan_dist(walk[Len(walk)], get_end(Input)) + (Len(walk) - 1))
    /\ [][(pc = "a_star" /\ pc' = "a_star") =>
            \E i \in 1..Len(frontier) :
                SubSeq(frontier', 1, Len(frontier) - 1) = Without(frontier, i)]_vars

\* C15 witness: a_star holds an entry whose path has two steps or more
\* beside another entry.
C15_Witness ==
    /\ pc = "a_star" /\ Len(frontier) >= 2
    /\ \E i \in 1..Len(frontier) :
          Len(frontier[i].path) >= 2 /\ frontier[i].key > Len(frontier[i].path)

\* the Manhattan distance from the cell of a frontier entry to End
DistanceToEnd(e) == manhattan_dist(<<e.row, e.col>>, get_end(Input))

\* C16: every entry greedy_best_first_search takes from the frontier is at a
\* Manhattan distance to End no greater than that of any entry on the frontier
\* at that moment, and it is the one greatest entry in the order of the
\* entries themselves, so nothing else decides a tie; the two runs of a
\* session on the same grid expand the same cells in the same order and mark
\* the same path.
C16_GreedyTakesNearest ==
    /\ [][(pc = "greedy_best_first_search" /\ frontier # <<>>) =>
            \E i \in 1..Len(frontier) :
                /\ SubSeq(frontier', 1, Len(frontier) - 1) = Without(frontier, i)
                /\ \A j \in 1..Len(frontier) :
                      DistanceToEnd(frontier[i]) <= DistanceToEnd(frontier[j])
                /\ \A j \in 1..Len(frontier) :
                      j # i => EntryLess(frontier[j], frontier[i])]_vars
    /\ []((Returned /\ token = "GBFS" /\ display_visited) =>
            /\ expanded = Unflagged.expanded
            /\ marked = Unflagged.marked)

\* C16 witness: greedy_best_first_search is about to take an entry from a
\* frontier on which two entries are at the least distance to End and a
\* third is farther.
C16_Witness ==
    /\ pc = "greedy_best_first_search"
    /\ \E i, j, k \in 1..Len(frontier) :
          /\ i # j
          /\ DistanceToEnd(frontier[i]) = DistanceToEnd(frontier[j])
          /\ DistanceToEnd(frontier[i]) < DistanceToEnd(frontier[k])
          /\ \A l \in 1..Len(frontier) :
                DistanceToEnd(frontier[i]) <= DistanceToEnd(frontier[l])

\* the neighbours of (r, c) in the order up, left, down, right, 0 - 1 being
\* the maximum value
WrappedNeighbors(r, c) ==
    << <<IF r = 0 THEN USIZE_MAX ELSE r - 1, c>>,
       <<r, IF c = 0 THEN USIZE_MAX ELSE c - 1>>,
       <<r + 1, c>>,
       <<r, c + 1>> >>

\* C17: the neighbours of every cell are generated in the order up, left,
\* down, right with wrap-around arithmetic, and no coordinate outside the grid
\* is ever indexed, placed on the frontier, inserted in the visited set or
\* expanded: the searches index the grid only inside it.
C17_NoOutOfBoundsAccess ==
    (InSearch /\ is_maze_valid(Input) = "Ok") =>
        /\ \A p \in Coords(grid) : Neighbors(p[1], p[2]) = WrappedNeighbors(p[1], p[2])
        /\ Coords(grid) = Coords(Input)
        /\ accessed \subseteq Coords(Input)
        /\ Range(pushed) \subseteq Coords(Input)
        /\ Range(expanded) \subseteq Coords(Input)
        /\ visited \subseteq Coords(Input)
        /\ InProgress \subseteq Coords(Input)

\* C17 witness: a search returned after expanding the corner cell (0, 0),
\* whose up and left neighbours wrap, and a cell on the last row and one on
\* the last column, whose down and right neighbours lie past the grid; none
\* of those neighbours was indexed.
C17_Witness ==
    /\ Returned /\ Len(expanded) >= 2
    /\ <<0, 0>> \in Range(expanded)
    /\ \E p, q \in Range(expanded) :
          p[1] + 1 = Height(Input) /\ q[2] + 1 = Width(Input, 0)
    /\ Neighbors(0, 0)[1] = <<USIZE_MAX, 0>> /\ Neighbors(0, 0)[2] = <<0, USIZE_MAX>>
    /\ accessed \cap Range(Neighbors(0, 0)) \subseteq Coords(Input)
    /\ <<USIZE_MAX, 0>> \notin accessed /\ <<0, USIZE_MAX>> \notin accessed

====
